---------------------------- MODULE Spec2Model ----------------------------
(***************************************************************************)
(* The engine-schematic crate: analyze_line (entity extraction),           *)
(* Vertex (halo / occupied cells / adjacency test), build_adjacency_list   *)
(* (the adjacency mapping, built row by row) and the two queries           *)
(* part_numbers and gear_ratios.                                           *)
(*                                                                         *)
(* A line is a sequence of one-character strings; column c of the source   *)
(* is index c + 1 here.  A u32 is kept as two 16-bit limbs <<hi, lo>>      *)
(* (value hi * 2^16 + lo), so that the whole range 0 .. 2^32 - 1 and every *)
(* overflow of it is computed exactly.                                     *)
(***************************************************************************)
EXTENDS Integers, Sequences, FiniteSets, Bags, TLC

VARIABLES
    input,              \* build_adjacency_list's argument: the grid's lines
    y,                  \* index of the next row enumerate() hands to the closure
    verts_by_line_no,   \* lib.rs:50
    adj_list,           \* lib.rs:51
    status,             \* per query: "pending", "returned" or "panicked"
    parts,              \* what part_numbers returned (a bag: HashMap order is arbitrary)
    gears,              \* what gear_ratios returned (a bag)
    va, vb,             \* the two vertices of a direct use of the Vertex API
    probe               \* what that use of the Vertex API computed

vars == <<input, y, verts_by_line_no, adj_list, status, parts, gears, va, vb, probe>>

-----------------------------------------------------------------------------
(* Bounds of the model *)

\* most cells (rows times widest row) of the exhaustively enumerated grids
MaxCells == 6
\* most rows of the exhaustively enumerated grids
MaxRows == 3
\* longest digit run of the long-run lines
MaxRun == 11
\* largest row and column given to Vertex::number / Vertex::symbol directly
MaxCoord == 3

-----------------------------------------------------------------------------
(* Characters *)

Digits == {"0", "1", "2", "3", "4", "5", "6", "7", "8", "9"}

DigitVal ==
    ("0" :> 0) @@ ("1" :> 1) @@ ("2" :> 2) @@ ("3" :> 3) @@ ("4" :> 4) @@
    ("5" :> 5) @@ ("6" :> 6) @@ ("7" :> 7) @@ ("8" :> 8) @@ ("9" :> 9)

\* \d of the regex, on single-byte text
IsDigit(c) == c \in Digits

-----------------------------------------------------------------------------
(* u32 *)

Limb == 2^16

\* the u32 with value n, for n that one limb pair holds without carrying
U32(n) == <<n \div Limb, n % Limb>>

\* u32::MAX = 2^32 - 1
U32Max == <<Limb - 1, Limb - 1>>

\* result.checked_mul(10)?.checked_add(d)? : <<TRUE, value>> or <<FALSE, _>>
checked_mul10_add(v, d) ==
    LET lo == v[2] * 10 + d
        hi == v[1] * 10 + (lo \div Limb)
    IN  IF hi >= Limb THEN <<FALSE, <<0, 0>>>> ELSE <<TRUE, <<hi, lo % Limb>>>>

RECURSIVE parse_digits(_, _, _)
parse_digits(s, i, acc) ==
    IF i > Len(s) THEN <<TRUE, acc>>
    ELSE LET r == checked_mul10_add(acc, DigitVal[s[i]])
         IN  IF r[1] THEN parse_digits(s, i + 1, r[2]) ELSE r

\* str::parse::<u32>() on a regex match: Ok(n) is <<TRUE, n>>, Err is <<FALSE, _>>.
\* A match is a digit run or one character that is no digit, so a sign is never
\* followed by digits here.
parse(s) ==
    IF s # <<>> /\ \A i \in 1..Len(s) : IsDigit(s[i])
    THEN parse_digits(s, 1, <<0, 0>>)
    ELSE <<FALSE, <<0, 0>>>>

u32_div10(v) == <<v[1] \div 10, ((v[1] % 10) * Limb + v[2]) \div 10>>

\* format!("{number}").len(): the count of decimal digits of the value
RECURSIVE format_len(_)
format_len(v) ==
    IF v[1] = 0 /\ v[2] < 10 THEN 1 ELSE 1 + format_len(u32_div10(v))

\* the 32-bit product of two 16-bit numbers, as limbs
mul16(a, b) ==
    LET p1 == (a \div 256) * b
        p0 == (a % 256) * b
        lo == (p1 % 256) * 256 + p0
    IN  <<(p1 \div 256) + (lo \div Limb), lo % Limb>>

\* a * b in full: <<overflowed, low 32 bits>>
u32_mul(a, b) ==
    LET ll == mul16(a[2], b[2])
        lh == mul16(a[2], b[1])
        hl == mul16(a[1], b[2])
        hh == mul16(a[1], b[1])
        mid == ll[1] + lh[2] + hl[2]
        top == lh[1] + hl[1] + (mid \div Limb) + hh[1] + hh[2]
    IN  <<top > 0, <<mid % Limb, ll[2]>>>>

-----------------------------------------------------------------------------
(* vertex.rs *)

Number(n) == [tag |-> "Number", n |-> n, c |-> ""]
Symbol(c) == [tag |-> "Symbol", n |-> <<0, 0>>, c |-> c]

Vertex_number(number, row, min_x) ==
    [data |-> Number(number), y |-> row, min_x |-> min_x,
     max_x |-> min_x + format_len(number) - 1]

Vertex_symbol(symbol, row, min_x) ==
    [data |-> Symbol(symbol), y |-> row, min_x |-> min_x, max_x |-> min_x]

\* adjacent_points with max_x left at self.max_x: the halo misses the column
\* to the right
adjacent_points_no_right(v) ==
    LET min_y == IF v.y >= 1 THEN v.y - 1 ELSE v.y
        min_x == IF v.min_x >= 1 THEN v.min_x - 1 ELSE v.min_x
    IN  {<<x, r>> : x \in min_x..v.max_x, r \in min_y..(v.y + 1)}

\* adjacent_points with the subtractions done unchecked: no clamp at row 0
\* and column 0
adjacent_points_unclamped(v) ==
    {<<x, r>> : x \in (v.min_x - 1)..(v.max_x + 1), r \in (v.y - 1)..(v.y + 1)}

\* points are <<x, y>>
adjacent_points(v) ==
    LET min_y == IF v.y >= 1 THEN v.y - 1 ELSE v.y
        max_y == v.y + 1
        min_x == IF v.min_x >= 1 THEN v.min_x - 1 ELSE v.min_x
        max_x == v.max_x + 1
    IN  {<<x, r>> : x \in min_x..max_x, r \in min_y..max_y}

occupied_points(v) == {<<x, v.y>> : x \in v.min_x..v.max_x}

\* is_adjacent_to with the other vertex's halo in place of its occupied cells
is_adjacent_to_halos(self, other) ==
    adjacent_points(self) \cap adjacent_points(other) # {}

is_adjacent_to(self, other) ==
    adjacent_points(self) \cap occupied_points(other) # {}

-----------------------------------------------------------------------------
(* lib.rs: analyze_line *)

RECURSIVE run_end(_, _)
\* last index of the maximal digit run that starts at index i: \d+ is greedy
run_end(line, i) ==
    IF i < Len(line) /\ IsDigit(line[i + 1]) THEN run_end(line, i + 1) ELSE i

\* the closure of for_each: one regex match, line[i..j], becomes one vertex
vertex_of_match(line, row, i, j) ==
    LET r == parse(SubSeq(line, i, j))
    IN  IF r[1] THEN Vertex_number(r[2], row, i - 1)
        ELSE Vertex_symbol(line[i], row, i - 1)

RECURSIVE find_iter(_, _, _, _)
\* reg.find_iter(line).for_each(..) from index i on, for the regex (\d+)|([^.])
find_iter(line, row, i, analysis) ==
    IF i > Len(line) THEN analysis
    ELSE IF IsDigit(line[i])
         THEN LET j == run_end(line, i)
              IN  find_iter(line, row, j + 1,
                            Append(analysis, vertex_of_match(line, row, i, j)))
    ELSE IF line[i] # "."
         THEN find_iter(line, row, i + 1,
                        Append(analysis, vertex_of_match(line, row, i, i)))
    ELSE find_iter(line, row, i + 1, analysis)

analyze_line(line, row) == find_iter(line, row, 1, <<>>)

-----------------------------------------------------------------------------
(* lib.rs: build_adjacency_list *)

\* adj_list.entry(a).or_default().insert(b)
entry_insert(adj, a, b) ==
    IF a \in DOMAIN adj
    THEN [adj EXCEPT ![a] = @ \cup {b}]
    ELSE adj @@ (a :> {b})

\* insert_both without its second insert
insert_one_way(adj, a, b) == entry_insert(adj, a, b)

\* lib.rs:62-63 and 73-74: the edge in both directions
insert_both(adj, a, b) == entry_insert(entry_insert(adj, a, b), b, a)

\* adj_list.entry(a).or_default() with nothing inserted
entry_default(adj, a) == IF a \in DOMAIN adj THEN adj ELSE adj @@ (a :> {})

RECURSIVE same_row_pass_defaults(_, _, _)
\* same_row_pass with or_default() for both vertices ahead of the test
same_row_pass_defaults(adj, analysis, i) ==
    IF i + 1 > Len(analysis) THEN adj
    ELSE LET a == analysis[i]
             b == analysis[i + 1]
             d == entry_default(entry_default(adj, a), b)
         IN  same_row_pass_defaults(
                 IF is_adjacent_to(a, b) THEN insert_both(d, a, b) ELSE d,
                 analysis, i + 1)

RECURSIVE same_row_pass_no_offset(_, _, _)
\* same_row_pass without with_offset.next(): the pairs (analysis[i], analysis[i])
same_row_pass_no_offset(adj, analysis, i) ==
    IF i > Len(analysis) THEN adj
    ELSE LET a == analysis[i]
         IN  same_row_pass_no_offset(
                 IF is_adjacent_to(a, a) THEN insert_both(adj, a, a) ELSE adj,
                 analysis, i + 1)

RECURSIVE same_row_pass(_, _, _)
\* for (a, b) in iter.zip(with_offset): the pairs (analysis[i], analysis[i+1])
same_row_pass(adj, analysis, i) ==
    IF i + 1 > Len(analysis) THEN adj
    ELSE LET a == analysis[i]
             b == analysis[i + 1]
         IN  same_row_pass(IF is_adjacent_to(a, b) THEN insert_both(adj, a, b) ELSE adj,
                           analysis, i + 1)

RECURSIVE last_verts_pass(_, _, _, _)
\* last_verts.iter().for_each(|lv| ..) for one v
last_verts_pass(adj, v, last_verts, j) ==
    IF j > Len(last_verts) THEN adj
    ELSE LET lv == last_verts[j]
         IN  last_verts_pass(IF is_adjacent_to(v, lv) THEN insert_both(adj, lv, v) ELSE adj,
                             v, last_verts, j + 1)

RECURSIVE cross_row_pass(_, _, _, _)
\* analysis.iter().for_each(|v| ..)
cross_row_pass(adj, analysis, last_verts, i) ==
    IF i > Len(analysis) THEN adj
    ELSE cross_row_pass(last_verts_pass(adj, analysis[i], last_verts, 1),
                        analysis, last_verts, i + 1)

\* row_step that keeps no entry of verts_by_line_no for a row without entities
row_step_skips_empty(adj, verts, line, row) ==
    LET analysis == analyze_line(line, row)
        adj1 == same_row_pass(adj, analysis, 1)
    IN  IF row > 0 /\ (row - 1) \notin DOMAIN verts
        THEN <<TRUE, adj1, verts>>
        ELSE <<FALSE,
               IF row > 0
               THEN cross_row_pass(adj1, analysis, verts[row - 1], 1)
               ELSE adj1,
               IF analysis = <<>> THEN verts ELSE verts @@ (row :> analysis)>>

\* row_step with y > 1 for y > 0: row 1 is not tested against row 0
row_step_from_row_2(adj, verts, line, row) ==
    LET analysis == analyze_line(line, row)
        adj1 == same_row_pass(adj, analysis, 1)
    IN  <<FALSE,
          IF row > 1
          THEN cross_row_pass(adj1, analysis, verts[row - 1], 1)
          ELSE adj1,
          verts @@ (row :> analysis)>>

\* the closure of input.iter().enumerate().for_each, lib.rs:55-80, on row `row`:
\* <<panicked, adj_list, verts_by_line_no>>; the unwrap of lib.rs:67 panics
\* when the row above has no entry
row_step(adj, verts, line, row) ==
    LET analysis == analyze_line(line, row)
        adj1 == same_row_pass(adj, analysis, 1)
    IN  IF row > 0 /\ (row - 1) \notin DOMAIN verts
        THEN <<TRUE, adj1, verts>>
        ELSE <<FALSE,
               IF row > 0
               THEN cross_row_pass(adj1, analysis, verts[row - 1], 1)
               ELSE adj1,
               verts @@ (row :> analysis)>>

-----------------------------------------------------------------------------
(* lib.rs: the queries, as filters of the built mapping *)

IsNumber(v) == v.data.tag = "Number"
IsSymbol(v) == v.data.tag = "Symbol"

\* the bag of f[k] over the keys k of the function f: what
\* filter_map(..).collect() holds, in any order
BagOf(f) ==
    LET vals == {f[k] : k \in DOMAIN f}
    IN  [x \in vals |-> Cardinality({k \in DOMAIN f : f[k] = x})]

NumberValue(v) == v.data.n

\* lib.rs:11-23: the keys part_numbers keeps
part_number_keys(adj) ==
    {v \in DOMAIN adj : IsNumber(v) /\ \E a \in adj[v] : IsSymbol(a)}

\* lib.rs:35: the keys gear_ratios keeps
gear_keys(adj) ==
    {v \in DOMAIN adj :
        IsSymbol(v) /\ Cardinality(adj[v]) = 2 /\ \A a \in adj[v] : IsNumber(a)}

\* lib.rs:36-38: product::<u32>() of the two values, 1 * n1 * n2:
\* <<overflowed, low 32 bits>>
gear_product(adj, v) ==
    LET a == CHOOSE a \in adj[v] : TRUE
        b == CHOOSE b \in adj[v] : b # a
        p == u32_mul(NumberValue(a), NumberValue(b))
    IN  p

-----------------------------------------------------------------------------
(* The inputs *)

\* all sequences over S of length 0 .. n
SeqsUpTo(S, n) == UNION {[1..k -> S] : k \in 0..n}

\* the characters of the exhaustively enumerated grids: background, two
\* symbols, and the digits 0 and 3
Alphabet == {".", "*", "#", "0", "3"}

\* every grid of r <= MaxRows rows, each row (rows may differ in length, and
\* may be empty) of at most MaxCells \div r characters; and the empty grid
SmallGrids ==
    {<<>>} \cup
    UNION {[1..r -> SeqsUpTo(Alphabet, MaxCells \div r)] : r \in 1..MaxRows}

\* n copies of the character c
Rep(c, n) == [i \in 1..n |-> c]

\* "4294967295" (u32::MAX) and "4294967296"
U32MaxLine == <<"4", "2", "9", "4", "9", "6", "7", "2", "9", "5">>
U32OverLine == <<"4", "2", "9", "4", "9", "6", "7", "2", "9", "6">>

\* one-row grids holding a digit run of up to MaxRun equal digits behind up
\* to two zeros, and the two runs at the edge of u32
LongRunGrids ==
    {<<Rep(".", p) \o Rep("0", z) \o r \o t>> :
        p \in 0..1, z \in 0..2,
        r \in {Rep(d, n) : d \in {"1", "4", "9"}, n \in 0..MaxRun}
               \cup {U32MaxLine, U32OverLine},
        t \in {<<>>, <<"*">>, <<".", "#">>}}

\* input/sample.txt as the specification quotes it
SampleGrid ==
    << <<"4", "6", "7", ".", ".", "1", "1", "4", ".", ".">>,
       <<".", ".", ".", "*", ".", ".", ".", ".", ".", ".">>,
       <<".", ".", "3", "5", ".", ".", "6", "3", "3", ".">>,
       <<".", ".", ".", ".", ".", ".", "#", ".", ".", ".">>,
       <<"6", "1", "7", "*", ".", ".", ".", ".", ".", ".">>,
       <<".", ".", ".", ".", ".", "+", ".", "5", "8", ".">>,
       <<".", ".", "5", "9", "2", ".", ".", ".", ".", ".">>,
       <<".", ".", ".", ".", ".", ".", "7", "5", "5", ".">>,
       <<".", ".", ".", "$", ".", "*", ".", ".", ".", ".">>,
       <<".", "6", "6", "4", ".", "5", "9", "8", ".", ".">> >>

\* ["467#.114.+"]
Grid467 == << <<"4", "6", "7", "#", ".", "1", "1", "4", ".", "+">> >>

\* the grids of the crate's tests and of the specification's scenarios
ScenarioGrids ==
    { SampleGrid,
      Grid467,
      << <<".", ".", "9", "9", "*", ".", "9", "9", "*">> >>,
      << <<".", ".", "9", "9", "*", "/", "9", "9", ".">> >>,
      << <<".", ".", "9", "9", "*", "*", "9", "9", ".", ".">> >>,
      << <<".", ".", ".", ".", "*", ".", ".", ".", ".">> >> }

\* operands around the square root of 2^32, and the ends of u32
ProductOperands ==
    { <<"0">>, <<"1">>, <<"2">>,
      <<"6", "5", "5", "3", "5">>,
      <<"6", "5", "5", "3", "6">>,
      <<"6", "5", "5", "3", "7">>,
      U32MaxLine }

\* one-row grids "a*b": a symbol between two numbers
ProductGrids == {<<a \o <<"*">> \o b>> : a \in ProductOperands, b \in ProductOperands}

Grids == SmallGrids \cup LongRunGrids \cup ScenarioGrids \cup ProductGrids

Queries == {"part_numbers", "gear_ratios"}

NoProbe == [done |-> FALSE, halo |-> {}, ab |-> FALSE, ba |-> FALSE]

NoVertex == Vertex_symbol(".", 0, 0)

-----------------------------------------------------------------------------
(* One call of a query on a grid: build_adjacency_list row by row, then the *)
(* filter.                                                                  *)

Init ==
    /\ input \in Grids
    /\ y = 0
    /\ verts_by_line_no = <<>>
    /\ adj_list = <<>>
    /\ status = [q \in Queries |-> "pending"]
    /\ parts = EmptyBag
    /\ gears = EmptyBag
    /\ va = NoVertex
    /\ vb = NoVertex
    /\ probe = NoProbe

Panicked == \E q \in Queries : status[q] = "panicked"

\* for_each has run out of rows: build_adjacency_list returns adj_list
Built == y = Len(input) /\ ~Panicked

\* lib.rs:55-80: the closure on the next row; a panic ends the call
ProcessRow ==
    /\ y < Len(input)
    /\ ~Panicked
    /\ LET r == row_step(adj_list, verts_by_line_no, input[y + 1], y)
       IN  /\ adj_list' = r[2]
           /\ verts_by_line_no' = r[3]
           /\ y' = IF r[1] THEN y ELSE y + 1
           /\ status' = IF r[1] THEN [q \in Queries |-> "panicked"] ELSE status
    /\ UNCHANGED <<input, parts, gears, va, vb, probe>>

\* lib.rs:8-25
PartNumbers ==
    /\ Built
    /\ status["part_numbers"] = "pending"
    /\ parts' = BagOf([k \in part_number_keys(adj_list) |-> NumberValue(k)])
    /\ status' = [status EXCEPT !["part_numbers"] = "returned"]
    /\ UNCHANGED <<input, y, verts_by_line_no, adj_list, gears, va, vb, probe>>

\* what gear_ratios can come to: with overflow checks a product that does not
\* fit panics, without them it wraps
gear_outcomes(adj) ==
    LET keys == gear_keys(adj)
    IN  {<<"returned", BagOf([k \in keys |-> gear_product(adj, k)[2]])>>}
        \cup {<<"panicked", EmptyBag>> : k \in {k \in keys : gear_product(adj, k)[1]}}

\* lib.rs:27-47
GearRatios ==
    /\ Built
    /\ status["gear_ratios"] = "pending"
    /\ \E o \in gear_outcomes(adj_list) :
        /\ gears' = o[2]
        /\ status' = [status EXCEPT !["gear_ratios"] = o[1]]
    /\ UNCHANGED <<input, y, verts_by_line_no, adj_list, parts, va, vb, probe>>

Next == ProcessRow \/ PartNumbers \/ GearRatios

Spec == Init /\ [][Next]_vars

-----------------------------------------------------------------------------
(* A direct use of the Vertex API on two vertices made by its constructors *)

ProbeNumbers == {U32(0), U32(7), U32(12), U32(112), U32(4096), U32Max}

ProbeVertices ==
    {Vertex_number(n, r, x) : n \in ProbeNumbers, r \in 0..MaxCoord, x \in 0..MaxCoord}
    \cup {Vertex_symbol(c, r, x) : c \in {"*", "#"}, r \in 0..MaxCoord, x \in 0..MaxCoord}

InitVertex ==
    /\ input = <<>>
    /\ y = 0
    /\ verts_by_line_no = <<>>
    /\ adj_list = <<>>
    /\ status = [q \in Queries |-> "pending"]
    /\ parts = EmptyBag
    /\ gears = EmptyBag
    /\ va \in ProbeVertices
    /\ vb \in ProbeVertices
    /\ probe = NoProbe

\* va.adjacent_points(), va.is_adjacent_to(&vb), vb.is_adjacent_to(&va)
Probe ==
    /\ ~probe.done
    /\ probe' = [done |-> TRUE,
                 halo |-> adjacent_points(va),
                 ab |-> is_adjacent_to(va, vb),
                 ba |-> is_adjacent_to(vb, va)]
    /\ UNCHANGED <<input, y, verts_by_line_no, adj_list, status, parts, gears, va, vb>>

NextVertex == Probe

SpecVertex == InitVertex /\ [][NextVertex]_vars

-----------------------------------------------------------------------------
(* What the grid itself says, read off the characters without the code *)

\* the entities extracted so far, of every processed row
AllVerts ==
    UNION {{verts_by_line_no[r][i] : i \in 1..Len(verts_by_line_no[r])} :
           r \in DOMAIN verts_by_line_no}

\* v's adjacency set in the mapping; no entry counts as no neighbour
Adjacents(v) == IF v \in DOMAIN adj_list THEN adj_list[v] ELSE {}

Returned(q) == status[q] = "returned"

\* <<r, i, j>>: characters i..j of row r (indices from 1) are a maximal digit run
NumberTokens ==
    {t \in UNION {{<<r, i, j>> : i \in 1..Len(input[r]), j \in 1..Len(input[r])} :
                  r \in 1..Len(input)} :
        LET line == input[t[1]]
        IN  /\ t[2] <= t[3]
            /\ \A k \in t[2]..t[3] : line[k] \in Digits
            /\ (t[2] = 1 \/ line[t[2] - 1] \notin Digits)
            /\ (t[3] = Len(line) \/ line[t[3] + 1] \notin Digits)}

\* <<r, i>>: character i of row r is neither a digit nor '.'
SymbolTokens ==
    UNION {{<<r, i>> : i \in {k \in 1..Len(input[r]) : input[r][k] \notin Digits \cup {"."}}} :
           r \in 1..Len(input)}

\* the number token t touches the symbol token s in one of the 8 directions
Touches(t, s) ==
    /\ s[1] \in (t[1] - 1)..(t[1] + 1)
    /\ s[2] \in (t[2] - 1)..(t[3] + 1)

\* the value the digits of a number token spell
TokenValue(t) == parse_digits(SubSeq(input[t[1]], t[2], t[3]), 1, <<0, 0>>)[2]

\* a u32 below 2^31 as an integer
IntOf(v) == v[1] * Limb + v[2]

RECURSIVE BagSum(_)
\* the sum of a bag of small u32 values
BagSum(B) ==
    IF DOMAIN B = {} THEN 0
    ELSE LET x == CHOOSE x \in DOMAIN B : TRUE
         IN  IntOf(x) * B[x] + BagSum([z \in DOMAIN B \ {x} |-> B[z]])

-----------------------------------------------------------------------------
(* C1 *)

C1_NumberNeighbours(s) == {n \in Adjacents(s) : IsNumber(n)}

C1_Qualifying ==
    {s \in AllVerts : IsSymbol(s) /\ Cardinality(C1_NumberNeighbours(s)) = 2}

C1_Product(s) ==
    LET a == CHOOSE a \in C1_NumberNeighbours(s) : TRUE
        b == CHOOSE b \in C1_NumberNeighbours(s) : b # a
    IN  u32_mul(NumberValue(a), NumberValue(b))[2]

\* C1: gear_ratios returns exactly one value per Symbol entity that has exactly
\* two adjacent Number entities, the product of their values, and nothing for
\* any other Symbol: the count of adjacent Numbers is the sole criterion,
\* whatever the symbol's character and whatever Symbols are adjacent to it too.
C1_GearRatiosCountNumbersOnly ==
    Returned("gear_ratios") => gears = BagOf([s \in C1_Qualifying |-> C1_Product(s)])

\* a returned call on a grid where a Symbol has two Number neighbours and a
\* Symbol neighbour
C1_SymbolBesideGear ==
    /\ Returned("gear_ratios")
    /\ \E s \in C1_Qualifying : \E o \in Adjacents(s) : IsSymbol(o)

-----------------------------------------------------------------------------
(* C2 *)

C2_TouchingTokens == {t \in NumberTokens : \E s \in SymbolTokens : Touches(t, s)}

\* C2: part_numbers returns, as a multiset, exactly the values of the number
\* tokens (maximal digit runs) that touch at least one symbol token in any of
\* the 8 directions, each token once, equal values at different positions
\* separately, and nothing for a number that touches no symbol.
C2_PartNumbersAreTouchingTokens ==
    Returned("part_numbers") => parts = BagOf([t \in C2_TouchingTokens |-> TokenValue(t)])

-----------------------------------------------------------------------------
(* C3 *)

\* C3 as stated: on ["467#.114.+"] the values part_numbers returns sum to 581.
C3_Grid467SumIs581 ==
    (input = Grid467 /\ Returned("part_numbers")) => BagSum(parts) = 581

\* C3: on ["467#.114.+"] part_numbers returns 467 alone, so the values sum to
\* 467: 114 (columns 5..7) touches neither '#' (column 3) nor '+' (column 9).
C3_Grid467SumIs467 ==
    (input = Grid467 /\ Returned("part_numbers"))
        => parts = SetToBag({U32(467)}) /\ BagSum(parts) = 467

C3_Grid467Returned == input = Grid467 /\ Returned("part_numbers")

-----------------------------------------------------------------------------
(* C4 *)

\* C4: after each row processed and when the build ends, the mapping is
\* symmetric: A is in B's adjacency set iff B is in A's.
C4_Symmetric ==
    \A a \in AllVerts \cup DOMAIN adj_list :
        \A b \in AllVerts \cup DOMAIN adj_list :
            (a \in Adjacents(b)) <=> (b \in Adjacents(a))

\* a finished build with an edge within a row and an edge across two rows
C4_EdgesOfBothKinds ==
    /\ Built /\ y >= 2
    /\ \E a \in DOMAIN adj_list : \E b \in adj_list[a] : a.y = b.y
    /\ \E a \in DOMAIN adj_list : \E b \in adj_list[a] : a.y # b.y

-----------------------------------------------------------------------------
(* C5 *)

\* C5: the span of every Number entity analyze_line extracts is the start and
\* end column of the maximal digit run it came from: the value's digit count
\* is the span's width and the span's characters parse to the value, also for
\* runs that begin with 0.
C5_SpanIsTheDigitRun ==
    \A r \in DOMAIN verts_by_line_no :
        \A i \in 1..Len(verts_by_line_no[r]) :
            LET v == verts_by_line_no[r][i]
            IN  IsNumber(v) =>
                  /\ <<r + 1, v.min_x + 1, v.max_x + 1>> \in NumberTokens
                  /\ format_len(v.data.n) = v.max_x - v.min_x + 1
                  /\ parse(SubSeq(input[r + 1], v.min_x + 1, v.max_x + 1))
                        = <<TRUE, v.data.n>>

-----------------------------------------------------------------------------
(* C6 *)

\* C6: the parse of a digit run never fails, whatever its length: every
\* maximal digit run becomes exactly one Number entity, and every Symbol
\* entity carries a character that is neither a digit nor '.'.
C6_EveryRunIsANumber ==
    \A r \in DOMAIN verts_by_line_no :
        LET vs == {verts_by_line_no[r][i] : i \in 1..Len(verts_by_line_no[r])}
        IN  /\ \A t \in {t \in NumberTokens : t[1] = r + 1} :
                  Cardinality({v \in vs : IsNumber(v) /\ v.min_x = t[2] - 1}) = 1
            /\ Cardinality({v \in vs : IsNumber(v)})
                  = Cardinality({t \in NumberTokens : t[1] = r + 1})
            /\ \A v \in vs : IsSymbol(v) => v.data.c \notin Digits \cup {"."}

-----------------------------------------------------------------------------
(* C7 *)

OnlyDots(grid) == \A r \in 1..Len(grid) : \A i \in 1..Len(grid[r]) : grid[r][i] = "."

\* C7: on the empty grid and on every grid whose rows hold only '.' (empty rows
\* included) neither query fails, and both return an empty sequence.
C7_OnlyDotsGivesNothing ==
    OnlyDots(input) =>
        /\ ~Panicked
        /\ (Returned("part_numbers") => parts = EmptyBag)
        /\ (Returned("gear_ratios") => gears = EmptyBag)

\* both queries have returned on a grid of '.' with several rows, one empty
C7_DotsReturned ==
    /\ OnlyDots(input) /\ Len(input) >= 2
    /\ \E r \in 1..Len(input) : input[r] = <<>>
    /\ \E r \in 1..Len(input) : input[r] # <<>>
    /\ Returned("part_numbers") /\ Returned("gear_ratios")

\* both queries have returned on the empty grid
C7_EmptyGridReturned ==
    input = <<>> /\ Returned("part_numbers") /\ Returned("gear_ratios")

-----------------------------------------------------------------------------
(* C8 *)

\* C8: the adjacency test gives the same answer in both directions, for any
\* two entities, also at row 0 or column 0 where the halo is clamped.
C8_AdjacencyTestSymmetric == probe.done => (probe.ab = probe.ba)

\* a vertex in the corner of the grid found adjacent to one on the next row
C8_ClampedPairAdjacent ==
    /\ probe.done /\ probe.ab /\ probe.ba
    /\ va.y = 0 /\ va.min_x = 0 /\ vb.y = 1 /\ vb.min_x = 1
    /\ IsNumber(va) /\ IsSymbol(vb)

-----------------------------------------------------------------------------
(* C9 *)

Max(a, b) == IF a >= b THEN a ELSE b

\* the cells (x, r) with max(0, min_x - 1) <= x <= max_x + 1 and
\* max(0, y - 1) <= r <= y + 1
C9_Cells(v) ==
    {p \in ((-2)..(v.max_x + 2)) \X ((-2)..(v.y + 2)) :
        /\ Max(0, v.min_x - 1) <= p[1] /\ p[1] <= v.max_x + 1
        /\ Max(0, v.y - 1) <= p[2] /\ p[2] <= v.y + 1}

C9_Count(v) ==
    (v.max_x - v.min_x + 2 + (IF v.min_x > 0 THEN 1 ELSE 0))
        * (2 + (IF v.y > 0 THEN 1 ELSE 0))

\* C9: adjacent_points returns exactly the cells (x, r) with
\* max(0, min_x - 1) <= x <= max_x + 1 and max(0, y - 1) <= r <= y + 1: the
\* halo shrinks at row 0 and column 0, and has
\* (max_x - min_x + 2 + [min_x > 0]) * (2 + [y > 0]) cells: 15 for a 3-wide
\* number at row 1, column 1, and 6 for a 2-wide number at row 0, column 0.
C9_HaloIsClampedRectangle ==
    probe.done =>
        /\ probe.halo = C9_Cells(va)
        /\ Cardinality(probe.halo) = C9_Count(va)
        /\ (va = Vertex_number(U32(112), 1, 1) => Cardinality(probe.halo) = 15)
        /\ (va = Vertex_number(U32(12), 0, 0) => Cardinality(probe.halo) = 6)

\* the halo of the 2-wide number at row 0, column 0 has been computed
C9_CornerHalo ==
    /\ probe.done
    /\ va = Vertex_number(U32(12), 0, 0)
    /\ va.max_x = 1
    /\ Cardinality(probe.halo) = 6

-----------------------------------------------------------------------------
(* C10 *)

\* no two entities of one row with an entity between them are adjacent
C10_OnlyNeighboursTouch ==
    \A r \in DOMAIN verts_by_line_no :
        \A i \in 1..Len(verts_by_line_no[r]) :
            \A j \in (i + 2)..Len(verts_by_line_no[r]) :
                /\ ~is_adjacent_to(verts_by_line_no[r][i], verts_by_line_no[r][j])
                /\ ~is_adjacent_to(verts_by_line_no[r][j], verts_by_line_no[r][i])

\* C10: the mapping has exactly the edges that testing every pair of distinct
\* extracted entities with is_adjacent_to gives: two entities of one row that
\* are not consecutive are never adjacent, nor are two entities whose rows
\* differ by 2 or more, so no edge is missed and none is added.
C10_MappingIsAllPairs ==
    LET V == AllVerts
    IN  /\ DOMAIN adj_list \subseteq V
        /\ C10_OnlyNeighboursTouch
        /\ \A a \in V :
            /\ Adjacents(a) \subseteq V \ {a}
            /\ \A b \in V \ {a} :
                /\ ((b \in Adjacents(a)) <=> is_adjacent_to(a, b))
                /\ ((a.y >= b.y + 2) =>
                        (~is_adjacent_to(a, b) /\ ~is_adjacent_to(b, a)))

\* a finished build of two rows: three entities in a row, each end adjacent to
\* the middle one and not to the other end, and an edge across the rows
C10_RowOfThree ==
    /\ Built /\ y = 2
    /\ \E r \in DOMAIN verts_by_line_no :
        /\ Len(verts_by_line_no[r]) = 3
        /\ verts_by_line_no[r][2] \in Adjacents(verts_by_line_no[r][1])
        /\ verts_by_line_no[r][3] \in Adjacents(verts_by_line_no[r][2])
        /\ verts_by_line_no[r][3] \notin Adjacents(verts_by_line_no[r][1])
    /\ \E a \in DOMAIN adj_list : \E b \in adj_list[a] : a.y # b.y

-----------------------------------------------------------------------------
(* C11 *)

\* v was tested by an edge-building step: against a neighbour in its own row,
\* or against an entity of the processed row above or below
C11_Visited(v) ==
    \/ Len(verts_by_line_no[v.y]) >= 2
    \/ \E r \in {v.y - 1, v.y + 1} \cap DOMAIN verts_by_line_no :
           verts_by_line_no[r] # <<>>

\* C11 as stated: when the build has ended, every entity that an edge-building
\* step visited is a key of the mapping, with an empty set when it has no
\* neighbours.
C11_VisitedAreKeys ==
    Built => \A v \in AllVerts : C11_Visited(v) => v \in DOMAIN adj_list

\* C11: when the build has ended (and after every row), the keys of the
\* mapping are exactly the entities with at least one neighbour, and no key
\* has an empty set: an entity that was only tested and found adjacent to
\* nothing is not a key.
C11_KeysHaveNeighbours ==
    LET V == AllVerts
    IN  /\ DOMAIN adj_list = {v \in V : \E w \in V \ {v} : is_adjacent_to(v, w)}
        /\ \A v \in DOMAIN adj_list : adj_list[v] # {}

\* a finished build in which a visited entity is no key
C11_VisitedButNoKey ==
    /\ Built
    /\ \E v \in AllVerts : C11_Visited(v) /\ v \notin DOMAIN adj_list
    /\ adj_list # <<>>

-----------------------------------------------------------------------------
(* C12 *)

\* C12: after each row processed, no entity is a member of its own adjacency
\* set, although is_adjacent_to is true of every entity tested against itself.
C12_NoSelfLoop ==
    /\ \A v \in DOMAIN adj_list : v \notin adj_list[v]
    /\ \A v \in AllVerts : is_adjacent_to(v, v)

\* a finished build of several rows with edges, all between distinct entities
C12_EdgesNoLoop ==
    /\ Built /\ y >= 2
    /\ \E v \in DOMAIN adj_list : Cardinality(adj_list[v]) >= 2 /\ is_adjacent_to(v, v)

-----------------------------------------------------------------------------
(* C13 *)

\* C13: gear_ratios is total over grids whose numbers fit in 32 bits: it does
\* not fail, and for every qualifying symbol the u32 product of its two
\* adjacent values does not overflow, so the value returned is the
\* mathematical product.
C13_ProductNeverOverflows ==
    /\ status["gear_ratios"] # "panicked"
    /\ (Returned("gear_ratios") =>
           \A k \in gear_keys(adj_list) : ~gear_product(adj_list, k)[1])

\* gear_ratios has returned the largest product that fits,
\* 65535 * 65537 = 2^32 - 1
C13_LargestProduct ==
    /\ Returned("gear_ratios")
    /\ gears = SetToBag({U32Max})
    /\ \E k \in gear_keys(adj_list) : \A n \in adj_list[k] : NumberValue(n) # U32Max

=============================================================================
